---- MODULE Spec2Model ----
(***************************************************************************)
(* Model of the deterministic wave (sum of bounded integers over a sliding *)
(* window) of src/src/wave.c and src/src/wave.h.                           *)
(*                                                                         *)
(* A wave is the record w, with the fields of struct wave.  A waveitem is  *)
(* a record [id, pos, v, z]: pos, v and z are the fields of struct         *)
(* waveitem, id stands for the address zmalloc returned for it (both lists *)
(* hold pointers to the same waveitem).  Lists are sequences, head first.  *)
(***************************************************************************)
EXTENDS Integers, Sequences, FiniteSets, TLC

\* Number of state-changing calls (admitting set, resize, reset) in a run.
MaxOps == 4
\* Timestamps handed to set range up to start + MaxSpan.
MaxSpan == 4
\* Number of times zmalloc fails in a run.
MaxAllocFail == 1

\* The relative errors used; E is the rational num/den (dyadic, so that the
\* double arithmetic of the source is exact on them).
Half == [num |-> 1, den |-> 2]

\* The (N, E, R) a wave is created with: one level and M = 2, two levels and
\* M = 4, three levels and M = 8.
CreateConfigs ==
  { [N |-> 1, E |-> Half, R |-> 1],
    [N |-> 2, E |-> Half, R |-> 1],
    [N |-> 3, E |-> Half, R |-> 1] }

\* The (N, E, R) a wave is resized to: the above, one with R = 2 (three
\* levels, M = 8), and one with N = 0, which wvincrbyCommand lets through (it
\* rejects N < -1 only).
Configs ==
  CreateConfigs \cup { [N |-> 2, E |-> Half, R |-> 2], [N |-> 0, E |-> Half, R |-> 2] }

\* Creation timestamps: one close to the positions, one far from them.
StartTimes == {2, 10}

\* What time(0) returns in waveReset.
ClockTimes == {10}

VARIABLES
  w,        \* the wave: [N, E, R, M, start, last, pos, total, z, l, L];
            \* DOMAIN w.l is the array of level queues waveCreate allocated
  heap,     \* ids of the waveitems allocated and not freed
  nextid,   \* next address zmalloc hands out
  alive,    \* FALSE once freeWaveObject ran
  ub,       \* TRUE once an access past the end of w->l happened
  ops,      \* number of state-changing calls so far
  g         \* history since the last reset: [hist, evicted, resized, oom]

vars == <<w, heap, nextid, alive, ub, ops, g>>

----------------------------------------------------------------------------
\* C arithmetic

\* a % m of C (truncated: the sign of the result is the sign of a)
CMod(a, m) == IF a >= 0 THEN a % m ELSE -((-a) % m)

\* a / b of C for b > 0 (truncated toward zero)
CDiv(a, b) == IF a >= 0 THEN a \div b ELSE -((-a) \div b)

RECURSIVE BitXor(_, _)
BitXor(a, b) ==
  IF a = 0 /\ b = 0 THEN 0
  ELSE (((a % 2) + (b % 2)) % 2) + 2 * BitXor(a \div 2, b \div 2)

\* floor(log(h)) for h >= 1: log is the natural logarithm
\* (e^1 = 2.71.., e^2 = 7.38.., e^3 = 20.08.., e^4 = 54.59.., e^5 = 148.41..)
FloorLog(h) ==
  IF h < 3 THEN 0
  ELSE IF h < 8 THEN 1
  ELSE IF h < 21 THEN 2
  ELSE IF h < 55 THEN 3
  ELSE IF h < 149 THEN 4
  ELSE 5

RECURSIVE Pow2(_)
Pow2(i) == IF i = 0 THEN 1 ELSE 2 * Pow2(i - 1)

----------------------------------------------------------------------------
\* wave.h

\* smallest power of two >= 2*N*R (the overflow guard needs N*R near 2^62)
RECURSIVE ModuloFrom(_, _, _)
ModuloFrom(i, N, R) ==
  IF i >= 62 \/ Pow2(i) >= 2 * N * R THEN Pow2(i) ELSE ModuloFrom(i + 1, N, R)

waveModulo(N, R) == ModuloFrom(0, N, R)

\* ceil(log2(p/q)) for integers p, q > 0
RECURSIVE CeilLog2Up(_, _, _)
CeilLog2Up(p, q, k) == IF q * Pow2(k) >= p THEN k ELSE CeilLog2Up(p, q, k + 1)

RECURSIVE FloorLog2Up(_, _, _)
FloorLog2Up(p, q, k) == IF q * Pow2(k + 1) > p THEN k ELSE FloorLog2Up(p, q, k + 1)

CeilLog2(p, q) == IF p >= q THEN CeilLog2Up(p, q, 0) ELSE -FloorLog2Up(q, p, 0)

Abs(x) == IF x < 0 THEN -x ELSE x

\* 1 + abs(ceil(log(2*E*N*R)/log(2))), 63 at most
NumLevelsOf(N, E, R) ==
  LET F == Abs(CeilLog2(2 * E.num * N * R, E.den))
  IN  IF F > 62 THEN 63 ELSE 1 + F

waveNumLevels(wv) == NumLevelsOf(wv.N, wv.E, wv.R)

\* log(2*E*N*r) is a number only for N > 0 (R > 0 is asserted); otherwise
\* abs(ceil(L)) converts -inf or NaN to int, which is undefined
NumLevelsDefined(wv) == wv.N > 0 /\ wv.R > 0

----------------------------------------------------------------------------
\* wave.c

\* ceil(1/E + 1)
waveLevelMaxPositions(E) == (E.den + E.num + E.num - 1) \div E.num

waveitemCreate(id, pos, v, z) == [id |-> id, pos |-> pos, v |-> v, z |-> z]

\* the comparison the two splice loops use: the three fields, not the address
SameTriple(a, b) == a.pos = b.pos /\ a.v = b.v /\ a.z = b.z

\* listDelNode on the first node of s whose item compares equal to it
RECURSIVE DelFirstMatch(_, _)
DelFirstMatch(s, it) ==
  IF s = <<>> THEN <<>>
  ELSE IF SameTriple(Head(s), it) THEN Tail(s)
  ELSE <<Head(s)>> \o DelFirstMatch(Tail(s), it)

Front(s) == SubSeq(s, 1, Len(s) - 1)

waveCreate(N, E, R, ts) ==
  [N |-> N, E |-> E, R |-> R, M |-> waveModulo(N, R),
   start |-> ts, last |-> ts, pos |-> 0, total |-> 0, z |-> 0,
   l |-> [j \in 0 .. (NumLevelsOf(N, E, R) - 1) |-> <<>>],
   L |-> <<>>]

\* The values waveComputeTotalLevel can return.  For v = 0 (the call of the
\* expire loop) h is 0, log(h) is -inf and its conversion to unsigned long is
\* undefined: any value, then clamped to num_levels - 1.
waveComputeTotalLevel(total, v, num_levels) ==
  IF num_levels <= 1 THEN {0}
  ELSE LET h == BitXor(total, total + v)
       IN  IF h = 0 THEN 0 .. (num_levels - 1)
           ELSE {IF FloorLog(h) >= num_levels THEN num_levels - 1 ELSE FloorLog(h)}

\* 1. "update pos if it's more recent"
TimestampStep(wv, ts) ==
  IF ts > wv.start /\ ts > wv.last
  THEN [wv EXCEPT !.pos = CMod(ts - wv.start, wv.M), !.last = ts]
  ELSE wv

\* 2. the expire loop: every way it can end, as [w, ub].  ub: the level
\* computed for an expired item is past the end of w->l.
RECURSIVE ExpireLoop(_, _)
ExpireLoop(wv, num_levels) ==
  IF wv.L = <<>> \/ ~(Head(wv.L).pos <= wv.pos - wv.N)
  THEN {[w |-> wv, ub |-> FALSE]}
  ELSE LET item == Head(wv.L)
           w1 == [wv EXCEPT !.z = item.z]
       IN  UNION { IF j \notin DOMAIN wv.l
                   THEN {[w |-> w1, ub |-> TRUE]}
                   ELSE ExpireLoop([w1 EXCEPT !.l[j] = DelFirstMatch(@, item),
                                              !.L = Tail(@)], num_levels)
                   : j \in waveComputeTotalLevel(item.z, 0, num_levels) }

\* 3.(b) "If the level j queue is full, then discard the tail of the queue and
\* splice it out of L"
CapacityFull(wv, j) == Len(wv.l[j]) > waveLevelMaxPositions(wv.E)

EvictTail(wv, j) ==
  LET tail_item == wv.l[j][Len(wv.l[j])]
  IN  [wv EXCEPT !.L = DelFirstMatch(@, tail_item), !.l[j] = Front(@)]

\* 3.(c) link the new item: head of the level j queue, tail of L
LinkItem(wv, j, new) ==
  [wv EXCEPT !.l[j] = <<new>> \o @, !.L = Append(@, new)]

\* waveSet past its early returns: every way the call can end, as
\* [w, ret, ub, evicted, new]; new is the set of items allocated (0 or 1).
waveSetAdmit(wv, v, ts, id, alloc_ok) ==
  LET num_levels == waveNumLevels(wv)
      w1 == TimestampStep(wv, ts)
  IN  IF ~NumLevelsDefined(wv)
      THEN {[w |-> wv, ret |-> "NONE", ub |-> TRUE, evicted |-> FALSE, new |-> {}]}
      ELSE
      UNION {
        IF e.ub
        THEN {[w |-> e.w, ret |-> "NONE", ub |-> TRUE, evicted |-> FALSE, new |-> {}]}
        ELSE
          { LET w2 == [e.w EXCEPT !.total = @ + v]
            IN  IF j \notin DOMAIN w2.l
                THEN [w |-> w2, ret |-> "NONE", ub |-> TRUE, evicted |-> FALSE, new |-> {}]
                ELSE
                  LET full == CapacityFull(w2, j)
                      w3 == IF full THEN EvictTail(w2, j) ELSE w2
                      new == waveitemCreate(id, w3.pos, v, CMod(w3.total, w3.M))
                  IN  IF alloc_ok
                      THEN [w |-> LinkItem(w3, j, new), ret |-> "OK", ub |-> FALSE,
                            evicted |-> full, new |-> {id}]
                      ELSE [w |-> w3, ret |-> "ERR", ub |-> FALSE,
                            evicted |-> full, new |-> {}]
            : j \in waveComputeTotalLevel(e.w.total, v, num_levels) }
        : e \in ExpireLoop(w1, num_levels) }

\* wavePurgeLists: [w, ub].  It walks num_levels queues, computed from the
\* current N, E, R, of the array waveCreate sized.
wavePurgeLists(wv) ==
  LET num_levels == waveNumLevels(wv)
  IN  IF ~NumLevelsDefined(wv) THEN [w |-> wv, ub |-> TRUE] ELSE
      [w  |-> [wv EXCEPT !.l = [j \in DOMAIN wv.l |->
                                  IF j < num_levels THEN <<>> ELSE wv.l[j]],
                         !.L = <<>>],
       ub |-> \E j \in 0 .. (num_levels - 1) : j \notin DOMAIN wv.l]

\* waveResize that keeps the modulus the wave had
waveResizeStaleM(wv, N, E, R) ==
  LET p == wavePurgeLists(wv)
  IN  [w  |-> IF p.ub THEN p.w ELSE [p.w EXCEPT !.N = N, !.E = E, !.R = R],
       ub |-> p.ub]

waveResize(wv, N, E, R) ==
  LET p == wavePurgeLists(wv)
  IN  [w  |-> IF p.ub THEN p.w
              ELSE [p.w EXCEPT !.N = N, !.E = E, !.R = R, !.M = waveModulo(N, R)],
       ub |-> p.ub]

\* waveReset; t1 and t2 are what its two calls of time(0) return
waveReset(wv, t1, t2) ==
  LET p == wavePurgeLists([wv EXCEPT !.start = t1, !.last = t2,
                                     !.pos = 0, !.total = 0, !.z = 0])
  IN  [w |-> p.w, ub |-> p.ub]

RECURSIVE SumV(_)
SumV(s) == IF s = <<>> THEN 0 ELSE Head(s).v + SumV(Tail(s))

\* "Walks head to infimum value for given ts": index in L of the item the
\* walk stops at (the last one when every pos is below the bound)
RECURSIVE Cursor(_, _, _)
Cursor(L, i, bound) ==
  IF L[i].pos < bound /\ i < Len(L) THEN Cursor(L, i + 1, bound) ELSE i

\* WAVE_MODULO_OBJ(v,w) is (v%w->M), its argument unparenthesised: handed a
\* difference a - b it expands to (a - b%w->M)
WAVE_MODULO_OBJ_Diff(a, b, M) == a - CMod(b, M)

\* "In the past": total minus the v of the items at or before ts
GetPast(wv, ts) ==
  LET AtOrBefore(item) == item.pos <= WAVE_MODULO_OBJ_Diff(ts, wv.start, wv.M)
  IN  wv.total - SumV(SelectSeq(wv.L, AtOrBefore))

\* "In the future": the v of the items after the sliding window limit
GetFuture(wv, ts) ==
  LET lim == WAVE_MODULO_OBJ_Diff(ts - wv.start, wv.N, wv.M)
      After(item) == item.pos > lim
  IN  SumV(SelectSeq(wv.L, After))

\* "FAST ESTIMATIVE"
GetFast(wv, head) == wv.total - CDiv(wv.z + head.z - head.v, 2)

\* the part of waveGet after "If L is empty"
GetCursor(wv, ts, fast_total) ==
  LET head == wv.L[Cursor(wv.L, 1, ts - wv.N)]
      p  == head.pos
      v2 == head.v
      z2 == head.z
  IN  IF p = ts - wv.N + 1 THEN wv.total - z2 + v2
      ELSE IF p = ts - wv.N THEN wv.total - z2
      ELSE IF ts = wv.pos THEN wv.total - wv.z
      ELSE IF fast_total THEN GetFast(wv, head)
      ELSE IF ts < wv.last THEN GetPast(wv, ts)
      ELSE GetFuture(wv, ts)

\* waveGet with the two band tests open at the ends (< and > for <= and >=)
waveGetOpenBand(wv, ts, fast_total) ==
  IF ts = 0 THEN 0
  ELSE IF ts < wv.start THEN 0
  ELSE IF ts < wv.last - wv.N THEN 0
  ELSE IF ts > wv.last + wv.N THEN 0
  ELSE IF ts = wv.last THEN wv.total - wv.z
  ELSE IF Len(wv.L) = 0 THEN 0
  ELSE GetCursor(wv, ts, fast_total)

waveGet(wv, ts, fast_total) ==
  IF ts = 0 THEN 0
  ELSE IF ts < wv.start THEN 0
  ELSE IF ts <= wv.last - wv.N THEN 0
  ELSE IF ts >= wv.last + wv.N THEN 0
  ELSE IF ts = wv.last THEN wv.total - wv.z
  ELSE IF Len(wv.L) = 0 THEN 0
  ELSE GetCursor(wv, ts, fast_total)

\* waveSet that turns away v < 0 only, so that v = 0 is filed like any value
waveSetZeroAdmitted(wv, v, ts, id, alloc_ok) ==
  IF v < 0 THEN {[w |-> wv, ret |-> "ERR", ub |-> FALSE, evicted |-> FALSE, new |-> {}]}
  ELSE IF ts = 0 THEN {[w |-> wv, ret |-> "ERR", ub |-> FALSE, evicted |-> FALSE, new |-> {}]}
  ELSE IF ts < wv.start
  THEN {[w |-> wv, ret |-> "OK", ub |-> FALSE, evicted |-> FALSE, new |-> {}]}
  ELSE waveSetAdmit(wv, v, ts, id, alloc_ok)

\* waveSet(w, v, ts): every way the call can end
waveSet(wv, v, ts, id, alloc_ok) ==
  IF v <= 0 THEN {[w |-> wv, ret |-> "ERR", ub |-> FALSE, evicted |-> FALSE, new |-> {}]}
  ELSE IF ts = 0 THEN {[w |-> wv, ret |-> "ERR", ub |-> FALSE, evicted |-> FALSE, new |-> {}]}
  ELSE IF ts < wv.start
  THEN {[w |-> wv, ret |-> "OK", ub |-> FALSE, evicted |-> FALSE, new |-> {}]}
  ELSE waveSetAdmit(wv, v, ts, id, alloc_ok)

\* freeWaveObject: listRelease on the num_levels queues and on L, zfree(w)
freeWaveObject(wv) == wavePurgeLists(wv)

----------------------------------------------------------------------------
\* wvincrbyCommand, for a request that gives all its arguments (argc = 8):
\* a = [incr, ts, N, E, R] with R # -1 (R = -1 stands for LLONG_MAX / N).
\* exists: the key holds a wave, wv; now: what time(0) returns.  The result
\* is every way the request can end, as [reply, exists, w, ub, new]; reply is
\* "err" (argument rejected), "toobig", "oom", "int" (the total) or "none".

ErrorReplies == {"err", "toobig", "oom"}

wvincrbyCommand(exists, wv, a, now, id, alloc_ok) ==
  LET Ended(reply, e, w2, u, n) ==
        [reply |-> reply, exists |-> e, w |-> w2, ub |-> u, new |-> n]
  IN
  IF a.R < -1 THEN {Ended("err", exists, wv, FALSE, {})}
  ELSE IF a.E.num <= 0 \/ a.E.num >= a.E.den THEN {Ended("err", exists, wv, FALSE, {})}
  ELSE IF a.N < -1 THEN {Ended("err", exists, wv, FALSE, {})}
  ELSE IF a.ts < 0 THEN {Ended("err", exists, wv, FALSE, {})}
  ELSE IF a.incr < 0 THEN {Ended("err", exists, wv, FALSE, {})}
  ELSE
    LET ts == IF a.ts = 0 THEN now ELSE a.ts
    IN  IF ~exists /\ ~(a.N > 0 /\ a.R > 0)
        THEN {Ended("none", exists, wv, TRUE, {})}
        ELSE
          LET w1 == IF exists THEN wv ELSE waveCreate(a.N, a.E, a.R, ts)
              rs == IF w1.R # a.R THEN waveResize(w1, a.N, a.E, a.R)
                    ELSE [w |-> w1, ub |-> FALSE]
              w2 == rs.w
          IN  IF rs.ub THEN {Ended("none", TRUE, w2, TRUE, {})}
              ELSE IF a.incr > w2.R THEN {Ended("toobig", TRUE, w2, FALSE, {})}
              ELSE IF a.incr > 0
              THEN { IF o.ub THEN Ended("none", TRUE, o.w, TRUE, o.new)
                     ELSE IF o.ret = "ERR" THEN Ended("oom", TRUE, o.w, FALSE, o.new)
                     ELSE Ended("int", TRUE, o.w, FALSE, o.new)
                     : o \in waveSet(w2, a.incr, ts, id, alloc_ok) }
              ELSE {Ended("int", TRUE, w2, FALSE, {})}

----------------------------------------------------------------------------
\* The state machine: one wave and the calls the host makes on it.

NoHistory == [hist |-> <<>>, evicted |-> FALSE, resized |-> FALSE, oom |-> 0]

\* what is left of the wave once zfree(o->ptr) ran
Freed ==
  [N |-> 0, E |-> Half, R |-> 0, M |-> 0, start |-> 0, last |-> 0, pos |-> 0,
   total |-> 0, z |-> 0, l |-> <<>>, L |-> <<>>]

Init ==
  /\ \E c \in CreateConfigs, ts \in StartTimes : w = waveCreate(c.N, c.E, c.R, ts)
  /\ heap = {}
  /\ nextid = 1
  /\ alive = TRUE
  /\ ub = FALSE
  /\ ops = 0
  /\ g = NoHistory

\* the timestamps a caller passes: unset (0), before start, one step behind
\* last, last .. start + MaxSpan
SetTimes ==
  {0, w.start - 1} \cup {t \in {w.last - 1} : t >= w.start}
    \cup (w.last .. (w.start + MaxSpan))

Admitted(v, ts) == v > 0 /\ ts # 0 /\ ts >= w.start

\* waveSet(w, v, ts); alloc_ok: zmalloc of the new waveitem succeeds
Set(v, ts, alloc_ok) ==
  /\ alive /\ ~ub
  /\ IF Admitted(v, ts) THEN ops < MaxOps /\ (alloc_ok \/ g.oom < MaxAllocFail)
     ELSE alloc_ok
  /\ \E o \in waveSet(w, v, ts, nextid, alloc_ok) :
       /\ w' = o.w
       /\ ub' = o.ub
       /\ heap' = heap \cup o.new
       /\ nextid' = IF o.new = {} THEN nextid ELSE nextid + 1
       /\ g' = IF ~Admitted(v, ts) THEN g
               ELSE [g EXCEPT
                       !.hist = IF o.ret = "OK"
                                THEN Append(@, [ts |-> ts, v |-> v]) ELSE @,
                       !.evicted = @ \/ o.evicted,
                       !.oom = IF o.ret = "ERR" THEN @ + 1 ELSE @]
  /\ ops' = IF Admitted(v, ts) THEN ops + 1 ELSE ops
  /\ UNCHANGED alive

\* waveResize(w, N, E, R).  listDelNode frees the list nodes; the lists have no
\* free method, so the waveitems stay allocated.
Resize(c) ==
  /\ alive /\ ~ub
  /\ ops < MaxOps
  /\ LET r == waveResize(w, c.N, c.E, c.R)
     IN  /\ w' = r.w
         /\ ub' = r.ub
  /\ g' = [g EXCEPT !.resized = TRUE]
  /\ ops' = ops + 1
  /\ UNCHANGED <<heap, nextid, alive>>

\* waveReset(w)
Reset(t1, t2) ==
  /\ alive /\ ~ub
  /\ ops < MaxOps
  /\ LET r == waveReset(w, t1, t2)
     IN  /\ w' = r.w
         /\ ub' = r.ub
  /\ g' = NoHistory
  /\ ops' = ops + 1
  /\ UNCHANGED <<heap, nextid, alive>>

\* freeWaveObject(o).  listRelease frees the nodes and the lists, not the
\* waveitems.
Destroy ==
  /\ alive /\ ~ub
  /\ LET r == freeWaveObject(w)
     IN  /\ w' = IF r.ub THEN r.w ELSE Freed
         /\ ub' = r.ub
  /\ alive' = FALSE
  /\ g' = NoHistory
  /\ UNCHANGED <<heap, nextid, ops>>

Next ==
  \/ \E v \in 0 .. w.R, ts \in SetTimes, alloc_ok \in BOOLEAN : Set(v, ts, alloc_ok)
  \/ \E c \in Configs : Resize(c)
  \/ \E t1 \in ClockTimes : \E t2 \in {t1, t1 + 1} : Reset(t1, t2)
  \/ Destroy

Spec == Init /\ [][Next]_vars

\* A longer stream of unit inserts into one wave, nothing else: enough calls
\* for total to pass M while triples are still expiring.
MaxStream == 6

\* waveSet(w, 1, ts) with ts at or after last; the allocation succeeds
StreamSet(ts) ==
  /\ alive /\ ~ub
  /\ ops < MaxStream
  /\ \E o \in waveSet(w, 1, ts, nextid, TRUE) :
       /\ w' = o.w
       /\ ub' = o.ub
       /\ heap' = heap \cup o.new
       /\ nextid' = IF o.new = {} THEN nextid ELSE nextid + 1
       /\ g' = [g EXCEPT
                  !.hist = IF o.ret = "OK"
                           THEN Append(@, [ts |-> ts, v |-> 1]) ELSE @,
                  !.evicted = @ \/ o.evicted]
  /\ ops' = ops + 1
  /\ UNCHANGED alive

StreamNext == \E ts \in w.last .. (w.start + MaxSpan) : StreamSet(ts)

StreamSpec == Init /\ [][StreamNext]_vars

----------------------------------------------------------------------------
\* Vocabulary of the properties

Live == alive /\ ~ub

Ids(s) == {s[i].id : i \in DOMAIN s}

LevelIds == UNION {Ids(w.l[j]) : j \in DOMAIN w.l}

RECURSIVE SumLen(_)
SumLen(S) ==
  IF S = {} THEN 0
  ELSE LET j == CHOOSE x \in S : TRUE IN Len(w.l[j]) + SumLen(S \ {j})

\* the timestamps queried: unset, and from before start to past the band
QueryTimes == {0} \cup ((w.start - 1) .. (w.last + w.N + 1))

InBand(ts) == ts >= w.start /\ w.last - w.N < ts /\ ts < w.last + w.N

\* brute-force oracle: the sum of the v admitted with timestamps in (ts - N, ts]
RECURSIVE WindowSum(_, _)
WindowSum(h, ts) ==
  IF h = <<>> THEN 0
  ELSE (IF ts - w.N < Head(h).ts /\ Head(h).ts <= ts THEN Head(h).v ELSE 0)
       + WindowSum(Tail(h), ts)

TrueSum(ts) == WindowSum(g.hist, ts)

\* every set since the last reset was admitted and linked, and no resize
CleanHistory == ~g.resized /\ g.oom = 0

NonDecreasing == \A i \in 1 .. (Len(g.hist) - 1) : g.hist[i].ts <= g.hist[i + 1].ts

\* C1: inside the valid band the fast estimate is within eps*N*R of the true
\* window sum.
C1_FastAccuracy ==
  (Live /\ CleanHistory) =>
    \A ts \in QueryTimes :
      InBand(ts) =>
        w.E.den * Abs(waveGet(w, ts, TRUE) - TrueSum(ts)) <= w.E.num * w.N * w.R

\* C2: L and the level queues hold the same triples, each triple of L in
\* exactly one level queue, so |L| is the sum of the queue lengths.
C2_ContainersInSync ==
  Live =>
    /\ Ids(w.L) = LevelIds
    /\ Len(w.L) = SumLen(DOMAIN w.l)
    /\ \A i \in Ids(w.L) : Cardinality({j \in DOMAIN w.l : i \in Ids(w.l[j])}) = 1

\* C3: no level queue holds more than ceil(1/eps) + 1 triples.
C3_LevelCapacity ==
  Live => \A j \in DOMAIN w.l : Len(w.l[j]) <= waveLevelMaxPositions(w.E)

\* C4: a set whose allocation fails leaves every field of the wave as it was.
C4_AllocFailAtomic == [][g'.oom > g.oom => w' = w]_vars
\* the cursor and the three boundary cases let the query through to the
\* traversal of L
ReachesRefined(ts) ==
  /\ Len(w.L) > 0
  /\ LET head == w.L[Cursor(w.L, 1, ts - w.N)]
     IN  /\ head.pos # ts - w.N + 1
         /\ head.pos # ts - w.N
         /\ ts # w.pos

\* the sum of v over the triples of L whose positions are in the window of ts
LiveWindowSum(ts) ==
  LET InWindow(item) == ts - w.start - w.N < item.pos /\ item.pos <= ts - w.start
  IN  SumV(SelectSeq(w.L, InWindow))

\* C5: a refined query about the past (start <= ts < last, ts > last - N) that
\* reaches the traversal answers the sum of v over the live triples of L with
\* ts - start - N < pos <= ts - start.
C5_RefinedPast ==
  Live =>
    \A ts \in QueryTimes :
      (w.start <= ts /\ ts < w.last /\ ts > w.last - w.N /\ ReachesRefined(ts)) =>
        waveGet(w, ts, FALSE) = LiveWindowSum(ts)

\* C6: with non-decreasing set timestamps and no capacity eviction, a refined
\* query about the future (last < ts < last + N) answers the brute-force sum of
\* the increments admitted in (ts - N, ts], boundary cases included.
C6_RefinedFuture ==
  (Live /\ CleanHistory /\ NonDecreasing /\ ~g.evicted) =>
    \A ts \in QueryTimes :
      (w.last < ts /\ ts < w.last + w.N) => waveGet(w, ts, FALSE) = TrueSum(ts)

\* C7: every query result lies between 0 and total.
C7_ResultRange ==
  Live =>
    \A ts \in QueryTimes, fast \in BOOLEAN :
      0 <= waveGet(w, ts, fast) /\ waveGet(w, ts, fast) <= w.total

\* C8: the positions in L are non-decreasing from head to tail, also once
\* ts - start has reached the modulus M.
C8_SortedL ==
  Live => \A i \in 1 .. (Len(w.L) - 1) : w.L[i].pos <= w.L[i + 1].pos

\* C9: the allocated triples are exactly those reachable from L or a level
\* queue, and none is allocated once the wave is destroyed.
C9_NoLeak ==
  ~ub => /\ alive => heap = Ids(w.L) \cup LevelIds
         /\ ~alive => heap = {}

\* C10: in every state a query at the last accepted timestamp answers
\* total - z, whatever fast is.
C10_GetAtLast ==
  Live => \A fast \in BOOLEAN : waveGet(w, w.last, fast) = w.total - w.z

\* the query is outside the band waveGet answers for
OutOfBand(ts) == ts < w.start \/ ts <= w.last - w.N \/ ts >= w.last + w.N

\* C11: a query with ts < start, ts <= last - N or ts >= last + N answers 0,
\* whatever fast is; so do the queries at last - N and at last + N.
C11_OutOfBandZero ==
  Live =>
    /\ \A ts \in QueryTimes, fast \in BOOLEAN :
         OutOfBand(ts) => waveGet(w, ts, fast) = 0
    /\ \A fast \in BOOLEAN :
         waveGet(w, w.last - w.N, fast) = 0 /\ waveGet(w, w.last + w.N, fast) = 0

\* C11 on a wave that holds triples and whose band edges are both at or after
\* start, with an in-band query that answers more than 0
C11_Witness ==
  /\ Live
  /\ Len(w.L) > 0
  /\ w.last - w.N >= w.start
  /\ \E ts \in QueryTimes : ~OutOfBand(ts) /\ waveGet(w, ts, TRUE) > 0
  /\ \A fast \in BOOLEAN :
       waveGet(w, w.last - w.N, fast) = 0 /\ waveGet(w, w.last + w.N, fast) = 0

\* the values a caller passes to set, the negative ones included
SetValues == (-1) .. w.R

C13_NoOpReturnsOK ==
  Live =>
    \A v \in SetValues, ts \in SetTimes :
      ~Admitted(v, ts) =>
        \A o \in waveSet(w, v, ts, nextid, TRUE) : o.ret = "OK"

\* the timestamps queried on a wave wv
QueryTimesOf(wv) == {0} \cup ((wv.start - 1) .. (wv.last + wv.N + 1))

\* C14: after reset L and the level queues are empty, pos = total = z = 0,
\* start = last = now, every query answers 0, and a second reset at the same
\* clock value changes nothing.
C14_Reset ==
  Live =>
    \A now \in ClockTimes : \A t2 \in {now, now + 1} :
      LET r == waveReset(w, now, t2)
      IN  ~r.ub =>
            /\ r.w.L = <<>>
            /\ \A j \in DOMAIN r.w.l : r.w.l[j] = <<>>
            /\ r.w.pos = 0 /\ r.w.total = 0 /\ r.w.z = 0
            /\ r.w.start = now /\ r.w.last = now
            /\ \A ts \in QueryTimesOf(r.w), fast \in BOOLEAN : waveGet(r.w, ts, fast) = 0
            /\ waveReset(r.w, now, now).w = waveReset(w, now, now).w

\* the requests sent: negative, zero, small and too big increments, a negative
\* and a present timestamp, N and R around their lower limits, E in and out of
\* (0,1)
Requests ==
  [incr : {-1, 0, 1, 3}, ts : {-1, w.last}, N : {-2, 0, 2}, E : {[num |-> 0, den |-> 1], Half},
   R : {-2, 1, 2}]

\* the request violates the input domain of the wave it is sent to
DomainViolation(a) ==
  \/ a.incr < 0
  \/ a.N <= 0
  \/ a.E.num <= 0 \/ a.E.num >= a.E.den
  \/ a.R < -1
  \/ a.ts < 0
  \/ a.incr > a.R /\ (alive => a.incr > w.R)

\* C15: a request that violates the input domain gets an error reply and
\* leaves the wave and the key table as they were: no resize, no purge, no key
\* created.
C15_RejectedUntouched ==
  ~ub =>
    \A a \in Requests, now \in ClockTimes :
      DomainViolation(a) =>
        \A o \in wvincrbyCommand(alive, w, a, now, nextid, TRUE) :
          ~o.ub => o.reply \in ErrorReplies /\ o.exists = alive /\ o.w = w

\* m is the smallest power of two that is at least x
SmallestPow2AtLeast(m, x) ==
  /\ \E i \in 0 .. 10 : m = Pow2(i)
  /\ m >= x
  /\ m = 1 \/ m \div 2 < x

\* C16: resize empties L and every level queue, sets N, E, R to the new values
\* and M to the smallest power of two >= 2*N'*R', and leaves total, z, pos,
\* start and last as they were.
C16_ResizeFrame ==
  Live =>
    \A c \in Configs :
      LET r == waveResize(w, c.N, c.E, c.R)
      IN  ~r.ub =>
            /\ r.w.L = <<>>
            /\ \A j \in DOMAIN r.w.l : r.w.l[j] = <<>>
            /\ r.w.N = c.N /\ r.w.E = c.E /\ r.w.R = c.R
            /\ SmallestPow2AtLeast(r.w.M, 2 * c.N * c.R)
            /\ r.w.total = w.total /\ r.w.z = w.z /\ r.w.pos = w.pos
            /\ r.w.start = w.start /\ r.w.last = w.last

\* C16 after a resize of a wave that had filed and expired triples: the lists
\* are empty, the modulus is another one, the scalars are still there
C16_Witness ==
  /\ Live
  /\ g.resized /\ g.oom = 0
  /\ heap # {}
  /\ w.N > 0
  /\ w.L = <<>> /\ \A j \in DOMAIN w.l : w.l[j] = <<>>
  /\ w.total > 0 /\ w.z > 0 /\ w.pos > 0 /\ w.last > w.start
  /\ w.M # waveModulo(1, 1)
  /\ SmallestPow2AtLeast(w.M, 2 * w.N * w.R)

\* the largest j such that a multiple of 2^j lies in (T, T + v], clamped to
\* [0, num_levels - 1]; 0 when there is one level
LargestBoundary(T, v) ==
  CHOOSE j \in 0 .. 10 :
    /\ (T + v) \div Pow2(j) > T \div Pow2(j)
    /\ \A k \in (j + 1) .. 10 : (T + v) \div Pow2(k) = T \div Pow2(k)

WaveLevel(T, v, num_levels) ==
  IF num_levels <= 1 THEN 0
  ELSE IF LargestBoundary(T, v) > num_levels - 1 THEN num_levels - 1
  ELSE LargestBoundary(T, v)

\* the position in queue j of w' of the triple the step allocated, if any
FiledAt(j) == {i \in DOMAIN w'.l[j] : w'.l[j][i].id = nextid /\ nextid' = nextid + 1}

\* C17: set files the new triple at the level of the most significant bit in
\* which total and total + v differ, clamped to the levels of the wave.
C17_LevelSelection ==
  [][Live' =>
       \A j \in DOMAIN w'.l : \A i \in FiledAt(j) :
         j = WaveLevel(w.total, w'.l[j][i].v, waveNumLevels(w))]_vars

LevelIdsOf(wv) == UNION {Ids(wv.l[j]) : j \in DOMAIN wv.l}

\* the step expires nothing: L is empty or its head is inside the window of
\* the position the step moves to
NothingExpires == w.L = <<>> \/ ~(Head(w.L).pos <= w'.pos - w.N)

\* C18: a set that files into a level queue holding ceil(1/eps)+1 triples
\* removes the oldest triple of that queue from the queue and from L, so the
\* queue still holds ceil(1/eps)+1 triples and every other triple that was in
\* both containers is still in both.
C18_EvictOldest ==
  [][Live' =>
       \A j \in DOMAIN w'.l :
         (/\ FiledAt(j) # {}
          /\ NothingExpires
          /\ Len(w.l[j]) = waveLevelMaxPositions(w.E))
         => LET oldest == w.l[j][Len(w.l[j])].id
            IN  /\ Len(w'.l[j]) = waveLevelMaxPositions(w.E)
                /\ oldest \notin Ids(w'.L) \cup LevelIdsOf(w')
                /\ \A i \in (Ids(w.L) \cap LevelIds) \ {oldest} :
                     i \in Ids(w'.L) \cap LevelIdsOf(w')]_vars

\* a step of set past its early returns: the call is recorded in the history,
\* or its allocation failed
SetStep == Len(g'.hist) = Len(g.hist) + 1 \/ g'.oom = g.oom + 1

\* the head of L is outside the window of the position the step moves to
HeadExpires == w.L # <<>> /\ Head(w.L).pos <= w'.pos - w.N

\* C19: when a set expires the head h of L, h is the tail of the level queue
\* that holds it, and after the call h is neither in L nor in any level queue.
C19_ExpiredHeadIsQueueTail ==
  [][(Live' /\ SetStep /\ HeadExpires) =>
       LET h == Head(w.L)
       IN  /\ \E j \in DOMAIN w.l :
                w.l[j] # <<>> /\ w.l[j][Len(w.l[j])].id = h.id
           /\ h.id \notin Ids(w'.L) \cup LevelIdsOf(w')]_vars

\* the last triple of the prefix of L the step expires
LastExpired ==
  LET expired(i) == \A m \in 1 .. i : w.L[m].pos <= w'.pos - w.N
      k == CHOOSE i \in 1 .. Len(w.L) :
             expired(i) /\ (i = Len(w.L) \/ ~expired(i + 1))
  IN  w.L[k]

\* C20: over a set call z never decreases, and after the call it is the z
\* field of the triple the call expired last, or unchanged when the call
\* expired nothing (z is 0 after create and after reset).
C20_ZMonotone ==
  [][(Live' /\ SetStep) =>
       /\ w'.z >= w.z
       /\ w'.z = (IF HeadExpires THEN LastExpired.z ELSE w.z)]_vars

\* waveGet(w, ts, 1) gets as far as the fast estimate
ReachesFast(ts) ==
  /\ ts # 0 /\ InBand(ts) /\ ts # w.last /\ Len(w.L) > 0
  /\ LET p == w.L[Cursor(w.L, 1, ts - w.N)].pos
     IN  p # ts - w.N + 1 /\ p # ts - w.N /\ ts # w.pos

\* C21: whenever get reaches the fast estimate, the true window sum S lies in
\* [total - z2 + v2, total - z1], (p, v2, z2) the triple the cursor stopped at
\* and z1 the scalar z.
C21_EstimatorBracket ==
  (Live /\ CleanHistory) =>
    \A ts \in QueryTimes :
      ReachesFast(ts) =>
        LET head == w.L[Cursor(w.L, 1, ts - w.N)]
        IN  /\ w.total - head.z + head.v <= TrueSum(ts)
            /\ TrueSum(ts) <= w.total - w.z

\* C22: in every state reached by create, set, resize and reset,
\* pos = (last - start) mod M.
C22_PositionInvariant == Live => w.pos = CMod(w.last - w.start, w.M)

\* C23: no two triples of L have the same pos: L is strictly ascending by
\* position.
C23_NoPositionTies ==
  Live => \A i, j \in DOMAIN w.L : i < j => w.L[i].pos < w.L[j].pos

\* C24: with N > 0, L is empty or its head satisfies head.pos > pos - N.
C24_HeadFresh ==
  (Live /\ w.N > 0) => (w.L = <<>> \/ Head(w.L).pos > w.pos - w.N)

\* every triple allocated so far was filed by a set of the history: the k-th
\* triple by the k-th set
HistoryOfIds == CleanHistory /\ nextid = Len(g.hist) + 1

\* C25: after every accepted set of a stream with timestamps at or after last
\* (so that a triple is admitted while last is its timestamp), every triple
\* still in L was admitted while last was strictly greater than the current
\* last - N, also once (ts - start) has reached M.
C25_ExpiryFollowsTime ==
  (Live /\ HistoryOfIds /\ NonDecreasing) =>
    \A i \in DOMAIN w.L : g.hist[w.L[i].id].ts > w.last - w.N

\* C26: every level index an admitted set uses, in the expire loop and in
\* admission, is inside the array of level queues that create allocated,
\* whatever resizes came before.
C26_LevelIndexInRange ==
  (Live /\ NumLevelsDefined(w)) =>
    \A v \in 1 .. w.R, ts \in SetTimes, alloc_ok \in BOOLEAN :
      Admitted(v, ts) => \A o \in waveSet(w, v, ts, nextid, alloc_ok) : ~o.ub

\* C27: if every set used a timestamp at or after the one before, no triple
\* was evicted for capacity, no resize occurred and total < M, then
\* get(w, last, .) is the sum of the increments admitted with timestamps in
\* (last - N, last].
C27_ExactAtLast ==
  (Live /\ CleanHistory /\ NonDecreasing /\ ~g.evicted /\ w.total < w.M) =>
    \A fast \in BOOLEAN : waveGet(w, w.last, fast) = TrueSum(w.last)

====
